---- MODULE Spec2Model ----
(***************************************************************************)
(* A model of the JGbackend e-commerce server.  The repository holds two   *)
(* builds of the same HTTP server:                                          *)
(*   - src/server.js          : uploads go to the local disk (multer        *)
(*                              diskStorage), no try/catch around the auth  *)
(*                              and list routes, no unique index on email,  *)
(*                              no PUT route;                               *)
(*   - src/unnamed/part_000   : uploads go to Cloudinary, every route has a *)
(*                              try/catch, email is unique, PUT exists.     *)
(* The variable `variant` says which build runs.  Every await of a handler  *)
(* is a point where other requests interleave, so a handler is one action   *)
(* per synchronous stretch between two awaits.                              *)
(***************************************************************************)
EXTENDS Integers, Sequences, FiniteSets, TLC

\* ------------------------------------------------------------------ bounds
\* Requests the server receives in a run; any of them may overlap.
MaxReq == 2
\* Date.now() runs from 1 to MaxClock milliseconds.
MaxClock == 2

Reqs == 1..MaxReq

\* --------------------------------------------------------- JS number values
\* A JS Number is NaN, +Infinity, -Infinity or the finite decimal m / 10^e
\* (kept normalised: e = 0 or m not divisible by 10).
NaN == [k |-> "nan", m |-> 0, e |-> 0]
PosInfinity == [k |-> "inf", m |-> 0, e |-> 0]
NegInfinity == [k |-> "-inf", m |-> 0, e |-> 0]

RECURSIVE Normalise(_, _)
Normalise(m, e) ==
  IF e > 0 /\ m % 10 = 0 THEN Normalise(m \div 10, e - 1)
  ELSE [k |-> "num", m |-> m, e |-> e]

isNaN(x) == x.k = "nan"
IsFinite(x) == x.k = "num"
IsNegative(x) == x.k = "-inf" \/ (x.k = "num" /\ x.m < 0)

\* ------------------------------------------------------------- parseFloat
\* A text is a sequence of one-character strings.
Digits == {"0", "1", "2", "3", "4", "5", "6", "7", "8", "9"}
DigitVal(c) ==
  CASE c = "0" -> 0 [] c = "1" -> 1 [] c = "2" -> 2 [] c = "3" -> 3
    [] c = "4" -> 4 [] c = "5" -> 5 [] c = "6" -> 6 [] c = "7" -> 7
    [] c = "8" -> 8 [] c = "9" -> 9
InfinityText == <<"I", "n", "f", "i", "n", "i", "t", "y">>

RECURSIVE TrimStart(_)
TrimStart(s) ==
  IF s # <<>> /\ Head(s) = " " THEN TrimStart(Tail(s)) ELSE s

RECURSIVE TakeDigits(_)
TakeDigits(s) ==
  IF s # <<>> /\ Head(s) \in Digits THEN <<Head(s)>> \o TakeDigits(Tail(s))
  ELSE <<>>

RECURSIVE DigitsToNat(_)
DigitsToNat(ds) ==
  IF ds = <<>> THEN 0
  ELSE 10 * DigitsToNat(SubSeq(ds, 1, Len(ds) - 1)) + DigitVal(ds[Len(ds)])

IsPrefix(p, s) == Len(p) <= Len(s) /\ SubSeq(s, 1, Len(p)) = p

\* The pieces of the longest StrDecimalLiteral prefix of a text: leading
\* white space skipped, an optional sign, then Infinity or digits with an
\* optional fraction.  `used` is the number of characters of the trimmed
\* text the literal takes (0: no literal).  The texts of this model hold no
\* exponent part.
Scan(text) ==
  LET t == TrimStart(text)
      signed == t # <<>> /\ Head(t) \in {"+", "-"}
      u == IF signed THEN Tail(t) ELSE t
      sg == IF signed THEN 1 ELSE 0
      ip == TakeDigits(u)
      r1 == SubSeq(u, Len(ip) + 1, Len(u))
      dot == r1 # <<>> /\ Head(r1) = "."
      fp == IF dot THEN TakeDigits(Tail(r1)) ELSE <<>>
      inf == IsPrefix(InfinityText, u)
      some == ip # <<>> \/ fp # <<>>
  IN [neg |-> signed /\ Head(t) = "-",
      inf |-> inf,
      some |-> some,
      ip |-> ip,
      fp |-> fp,
      len |-> Len(t),
      used |-> IF inf THEN sg + Len(InfinityText)
               ELSE IF ~some THEN 0
               ELSE sg + Len(ip) + (IF dot THEN 1 + Len(fp) ELSE 0)]

\* parseFloat(price): the value of the longest numeric prefix, NaN if none.
parseFloat(text) ==
  LET s == Scan(text)
      mag == DigitsToNat(s.ip \o s.fp)
  IN IF s.inf THEN (IF s.neg THEN NegInfinity ELSE PosInfinity)
     ELSE IF ~s.some THEN NaN
     ELSE Normalise(IF s.neg THEN 0 - mag ELSE mag, Len(s.fp))

\* A text is numeric when the whole of it (after leading white space) is one
\* decimal literal; "abc", "" and "1a" are not.
IsNumericText(text) ==
  LET s == Scan(text) IN s.used > 0 /\ s.used = s.len

\* ------------------------------------------------------------- input sets
Variants == {"disk", "cloud"}
AdminEmail == "admin@gmail.com"
Emails == {AdminEmail, "a@x.io"}
Passwords == {"admin123", "pw"}
Usernames == {"u"}
\* An attached file: the extension of its original name and its bytes.
Files ==
  { [ext |-> ".png", buffer |-> "c1"], [ext |-> ".png", buffer |-> "c2"] }
FileArgs(files) == {<<>>} \cup {<<f>> : f \in files}
\* The multipart fields of a create or update request, and its file (a
\* sequence of zero or one file).
Fields(names, texts, files) ==
  [name : names, description : {"Blue ink"}, price : texts,
   category : {"stationery"}, file : FileArgs(files)]
\* Requests with concurrency in view: creates of "Pen" at "1.50" with either
\* file or none, updates to "Cup" at "2" or "abc" with a file or none.
CreateArgs == Fields({"Pen"}, {<<"1", ".", "5", "0">>}, Files)
UpdateArgs ==
  Fields({"Cup"}, {<<"2">>, <<"a", "b", "c">>}, {[ext |-> ".png", buffer |-> "c1"]})
\* Requests with the price in view: "1.50", "2", "-5", "Infinity",
\* "-Infinity", "abc", "1a", " 2" and the empty text.
PriceTexts ==
  { <<"1", ".", "5", "0">>, <<"2">>, <<"-", "5">>, InfinityText,
    <<"-">> \o InfinityText, <<"a", "b", "c">>, <<"1", "a">>, <<" ", "2">>,
    <<>> }
PriceArgs == Fields({"Pen"}, PriceTexts, {[ext |-> ".png", buffer |-> "c1"]})
\* What a file on disk holds between its open (truncation) and the end of
\* the write, and after a failed write.
Partial == "partial"

\* ------------------------------------------------------------------ state
VARIABLES
  variant,       \* which build runs: "disk" (server.js) or "cloud" (part_000)
  clock,         \* Date.now()
  users,         \* the User collection: a set of documents (distinct _id)
  products,      \* the Product collection: a set of documents (distinct _id)
  blobs,         \* the Blob Store: reference -> content
  nextId,        \* the next product _id (assigned by new Product(...))
  nextPublicId,  \* the next identifier Cloudinary assigns
  seed,          \* where seedAdmin() stands
  reqs           \* per request slot: the request, its handler's locals and
                 \* position, and the response sent

vars ==
  <<variant, clock, users, products, blobs, nextId, nextPublicId, seed, reqs>>

\* A free request slot.  image = <<>> is the empty string; file, doc and body
\* are sequences of zero or one (body: any number of) documents.
Idle ==
  [kind |-> "none", pc |-> "idle",
   username |-> "", email |-> "", password |-> "",
   id |-> 0, name |-> "", description |-> "", category |-> "",
   price |-> <<>>, file |-> <<>>,
   priceNumber |-> NaN, image |-> <<>>, doc |-> <<>>,
   status |-> 0, sent |-> 0, msg |-> "", body |-> <<>>, err |-> ""]

Init ==
  /\ variant \in Variants
  /\ clock = 1
  /\ users = {}
  /\ products = {}
  /\ blobs = [ref \in {} |-> "partial"]
  /\ nextId = 1
  /\ nextPublicId = 1
  /\ seed = "findOne"
  /\ reqs = [r \in Reqs |-> Idle]

\* ---------------------------------------------------------------- helpers
\* app.listen: at once in server.js, after `await seedAdmin()` in part_000.
Listening == variant = "disk" \/ seed = "done"

\* A response is observed when it is sent: the slot of an answered request
\* is closed before another handler moves on.
Settled == \A r \in Reqs : reqs[r].pc # "done"

\* Requests arrive in the order of their slots.
Free(r) ==
  /\ reqs[r].pc = "idle"
  /\ \A s \in Reqs : s < r => reqs[s].pc # "idle"

\* res.status(status).json(...) by the handler of request record q: the
\* one response; the handler's locals die, the request's fields stay.
Json(q, status, msg, body) ==
  [q EXCEPT !.pc = "done", !.priceNumber = NaN, !.image = <<>>, !.doc = <<>>,
            !.status = status, !.sent = q.sent + 1, !.msg = msg, !.body = body]

\* catch (err) { res.status(500).json({error}) }, err thrown by `call`.
Catch(q, call, msg) == Json([q EXCEPT !.err = call], 500, msg, <<>>)

\* The error text of the catch of a product route.
ErrorText(kind) ==
  IF variant = "cloud" THEN "Internal server error"
  ELSE IF kind = "create" THEN "Error adding product" ELSE "Server error"

\* A rejection no try/catch handles (register, login and list of server.js).
\* Express 4 drops the rejected promise of an async handler and the request
\* is never answered (Node may end the process on the unhandled rejection;
\* the request stays unanswered then too); Express 5 passes it to its
\* default error handler, which answers 500.  The repository pins no
\* version: both can happen.
Unhandled(q, call) ==
  { [q EXCEPT !.pc = "hung", !.err = call],
    Json([q EXCEPT !.err = call], 500, "Internal Server Error", <<>>) }

\* What a throwing store call inside an auth or list handler leads to.
Thrown(q, call, msg) ==
  IF variant = "cloud" THEN {Catch(q, call, msg)} ELSE Unhandled(q, call)

\* bcrypt.hash(password, 10) and bcrypt.compare(password, hash).
Hash(password) == <<"$2a$10$", password>>
Compare(password, hash) == hash = Hash(password)

FindOne(email) == {u \in users : u.email = email}

\* new User({...}).save(): the unique index of part_000 rejects a second
\* document with the same email (E11000); server.js has no such index.
DuplicateKey(email) == variant = "cloud" /\ FindOne(email) # {}
NewUser(username, email, hashed) ==
  [id |-> Cardinality(users) + 1, username |-> username, email |-> email,
   password |-> hashed]

\* ------------------------------------------------------------------ clock
Tick ==
  /\ Settled
  /\ clock < MaxClock
  /\ clock' = clock + 1
  /\ UNCHANGED <<variant, users, products, blobs, nextId, nextPublicId, seed,
                 reqs>>

\* -------------------------------------------------------------- seedAdmin
SeedAdminFindOne ==
  /\ Settled
  /\ seed = "findOne"
  /\ \/ seed' = "failed"
     \/ seed' = IF FindOne(AdminEmail) # {} THEN "done" ELSE "save"
  /\ UNCHANGED <<variant, clock, users, products, blobs, nextId, nextPublicId,
                 reqs>>

SeedAdminSave ==
  /\ Settled
  /\ seed = "save"
  /\ \/ seed' = "failed" /\ UNCHANGED users
     \/ /\ ~DuplicateKey(AdminEmail)
        /\ users' = users \cup {NewUser("Admin", AdminEmail, Hash("admin123"))}
        /\ seed' = "done"
     \/ DuplicateKey(AdminEmail) /\ seed' = "failed" /\ UNCHANGED users
  /\ UNCHANGED <<variant, clock, products, blobs, nextId, nextPublicId, reqs>>

\* ---------------------------------------------------- POST /api/register
Register(r, username, email, password) ==
  /\ Settled
  /\ Listening
  /\ Free(r)
  /\ reqs' = [reqs EXCEPT ![r] =
       [Idle EXCEPT !.kind = "register", !.pc = "findOne",
                    !.username = username, !.email = email,
                    !.password = password]]
  /\ UNCHANGED <<variant, clock, users, products, blobs, nextId, nextPublicId,
                 seed>>

RegisterFindOne(r) ==
  /\ Settled
  /\ reqs[r].kind = "register" /\ reqs[r].pc = "findOne"
  /\ \/ \E out \in Thrown(reqs[r], reqs[r].pc, "Internal server error") :
          reqs' = [reqs EXCEPT ![r] = out]
     \/ /\ FindOne(reqs[r].email) # {}
        /\ reqs' = [reqs EXCEPT ![r] = Json(reqs[r], 400, "User already exists", <<>>)]
     \/ /\ FindOne(reqs[r].email) = {}
        /\ reqs' = [reqs EXCEPT ![r].pc = "save"]
  /\ UNCHANGED <<variant, clock, users, products, blobs, nextId, nextPublicId,
                 seed>>

RegisterSave(r) ==
  /\ Settled
  /\ reqs[r].kind = "register" /\ reqs[r].pc = "save"
  /\ \/ /\ \E out \in Thrown(reqs[r], reqs[r].pc, "Internal server error") :
             reqs' = [reqs EXCEPT ![r] = out]
        /\ UNCHANGED users
     \/ /\ ~DuplicateKey(reqs[r].email)
        /\ users' = users \cup
             {NewUser(reqs[r].username, reqs[r].email, Hash(reqs[r].password))}
        /\ reqs' = [reqs EXCEPT ![r] = Json(reqs[r], 201, "User registered", <<>>)]
  /\ UNCHANGED <<variant, clock, products, blobs, nextId, nextPublicId, seed>>

\* ------------------------------------------------------- POST /api/login
Login(r, email, password) ==
  /\ Settled
  /\ Listening
  /\ Free(r)
  /\ reqs' = [reqs EXCEPT ![r] =
       [Idle EXCEPT !.kind = "login", !.pc = "findOne", !.email = email,
                    !.password = password]]
  /\ UNCHANGED <<variant, clock, users, products, blobs, nextId, nextPublicId,
                 seed>>

\* findOne returns one of the matching documents; the handler keeps it in
\* `user` across the await of bcrypt.compare.
LoginFindOne(r) ==
  /\ Settled
  /\ reqs[r].kind = "login" /\ reqs[r].pc = "findOne"
  /\ \/ \E out \in Thrown(reqs[r], reqs[r].pc, "Internal server error") :
          reqs' = [reqs EXCEPT ![r] = out]
     \/ /\ FindOne(reqs[r].email) = {}
        /\ reqs' = [reqs EXCEPT ![r] = Json(reqs[r], 400, "Invalid credentials", <<>>)]
     \/ \E user \in FindOne(reqs[r].email) :
          reqs' = [reqs EXCEPT ![r].pc = "compare", ![r].doc = <<user>>]
  /\ UNCHANGED <<variant, clock, users, products, blobs, nextId, nextPublicId,
                 seed>>

LoginCompare(r) ==
  /\ Settled
  /\ reqs[r].kind = "login" /\ reqs[r].pc = "compare"
  /\ LET user == reqs[r].doc[1] IN
       IF Compare(reqs[r].password, user.password)
       THEN reqs' = [reqs EXCEPT ![r] = Json(reqs[r], 200, "token",
              <<[token |-> [userId |-> user.id, expiresIn |-> "2h"],
                 user |-> [id |-> user.id, username |-> user.username]]>>)]
       ELSE reqs' = [reqs EXCEPT ![r] = Json(reqs[r], 400, "Wrong password", <<>>)]
  /\ UNCHANGED <<variant, clock, users, products, blobs, nextId, nextPublicId,
                 seed>>

\* The connection of an answered (or abandoned) request ends.
Close(r) ==
  /\ reqs[r].pc \in {"done", "hung"}
  /\ reqs' = [reqs EXCEPT ![r] = [Idle EXCEPT !.pc = "closed"]]
  /\ UNCHANGED <<variant, clock, users, products, blobs, nextId, nextPublicId,
                 seed>>

\* ------------------------------------------------------- product helpers
NoBlobs == [ref \in {} |-> Partial]

\* `/uploads/${Date.now() + path.extname(file.originalname)}` and the
\* secure_url of a Cloudinary upload into the folder "products".
DiskRef(now, ext) == <<"/uploads/", now, ext>>
CloudRef(publicId) == <<"products/", publicId>>

Put(store, ref, content) == (ref :> content) @@ store

\* new Product({name, description, price: priceNumber, [category,] image}):
\* mongoose assigns _id and the default date (Date.now) at construction.
\* The schema of server.js has no category.
NewProduct(q, image) ==
  IF variant = "cloud"
  THEN [id |-> nextId, name |-> q.name, description |-> q.description,
        price |-> q.priceNumber, category |-> q.category, image |-> image,
        date |-> clock]
  ELSE [id |-> nextId, name |-> q.name, description |-> q.description,
        price |-> q.priceNumber, image |-> image, date |-> clock]

\* The request record once newProduct is constructed.
Saving(q, image) ==
  [q EXCEPT !.pc = "save", !.image = image, !.doc = <<NewProduct(q, image)>>]

\* findByIdAndUpdate(id, updateData, {new: true}) on the matching document:
\* the fields of updateData replace the document's, the others stay.
\* Mutant of UpdateImage: updateData.image is always set, to "" without a file.
UpdateImageAlways(p, q) == q.image
UpdateImage(p, q) == IF q.file # <<>> THEN q.image ELSE p.image
ApplyUpdate(p, q) ==
  [p EXCEPT !.name = q.name, !.description = q.description,
            !.price = q.priceNumber, !.category = q.category,
            !.image = UpdateImage(p, q)]

FindById(id) == {p \in products : p.id = id}

\* Product.find().sort({date: -1}): every document once, dates not
\* increasing; MongoDB leaves the order of equal dates open.
Injective(L) == \A i, j \in DOMAIN L : i # j => L[i] # L[j]
\* Mutant of Descending: sort({date: 1}).
Ascending(L) == \A i, j \in DOMAIN L : i < j => L[i].date <= L[j].date
Descending(L) == \A i, j \in DOMAIN L : i < j => L[i].date >= L[j].date
SortByDateDesc(docs) ==
  {L \in [1..Cardinality(docs) -> docs] : Injective(L) /\ Descending(L)}

\* The synchronous stretch of POST /api/products from the price check to the
\* first await, for the request record q (multer has run).
PostHandler(r, q) ==
  IF isNaN(q.priceNumber)
  THEN /\ reqs' = [reqs EXCEPT ![r] = Json(q, 400, "Price must be a valid number", <<>>)]
       /\ UNCHANGED nextId
  ELSE IF variant = "cloud" /\ q.file # <<>>
  THEN /\ reqs' = [reqs EXCEPT ![r] = [q EXCEPT !.pc = "upload"]]
       /\ UNCHANGED nextId
  ELSE LET image == IF q.file # <<>> THEN DiskRef(q.file[1].filename, q.file[1].ext)
                    ELSE <<>>
       IN /\ reqs' = [reqs EXCEPT ![r] =
               Saving(q, image)]
          /\ nextId' = nextId + 1

\* ---------------------------------------------------- POST /api/products
\* upload.single("image") runs first.  memoryStorage (part_000) keeps the
\* file in req.file.buffer and the handler starts at once; diskStorage
\* (server.js) names the file Date.now() + extname, opens it for writing
\* (which truncates it) and calls the handler when the write has ended.
PostProducts(r, name, description, price, category, file) ==
  /\ Settled
  /\ Listening
  /\ Free(r)
  /\ LET f == IF file = <<>> THEN <<>>
              ELSE <<[ext |-> file[1].ext, buffer |-> file[1].buffer,
                      filename |-> IF variant = "disk" THEN clock ELSE 0]>>
         q == [Idle EXCEPT !.kind = "create", !.pc = "handler", !.name = name,
                           !.description = description, !.price = price,
                           !.category = IF variant = "cloud" THEN category ELSE "",
                           !.file = f, !.priceNumber = parseFloat(price)]
     IN IF variant = "disk" /\ file # <<>>
        THEN /\ reqs' = [reqs EXCEPT ![r] = [q EXCEPT !.pc = "diskwrite"]]
             /\ blobs' = Put(blobs, DiskRef(clock, file[1].ext), Partial)
             /\ UNCHANGED nextId
        ELSE /\ PostHandler(r, q)
             /\ UNCHANGED blobs
  /\ UNCHANGED <<variant, clock, users, products, nextPublicId, seed>>

\* The end of multer's write to uploads/.  A failed write leaves the file as
\* it is and goes to next(err): Express answers 500 and the handler never
\* runs.  A finished write has put the request's bytes in the file.
DiskStorageWrite(r) ==
  /\ Settled
  /\ reqs[r].kind = "create" /\ reqs[r].pc = "diskwrite"
  /\ LET ref == DiskRef(reqs[r].file[1].filename, reqs[r].file[1].ext) IN
       \/ /\ reqs' = [reqs EXCEPT ![r] =
               Json([reqs[r] EXCEPT !.err = "diskwrite"], 500, "Internal Server Error", <<>>)]
          /\ UNCHANGED <<blobs, nextId>>
       \/ /\ blobs' = Put(blobs, ref, reqs[r].file[1].buffer)
          /\ PostHandler(r, reqs[r])
  /\ UNCHANGED <<variant, clock, users, products, nextPublicId, seed>>

\* Mutant of UploadToCloudinary: a rejected upload is swallowed and the
\* handler goes on without an image.
UploadToCloudinarySwallowingError(r) ==
  /\ Settled
  /\ reqs[r].pc = "upload"
  /\ \/ /\ IF reqs[r].kind = "create"
           THEN /\ reqs' = [reqs EXCEPT ![r] = Saving(reqs[r], <<>>)]
                /\ nextId' = nextId + 1
           ELSE /\ reqs' = [reqs EXCEPT ![r].pc = "findByIdAndUpdate"]
                /\ UNCHANGED nextId
        /\ UNCHANGED <<blobs, nextPublicId>>
     \/ LET url == CloudRef(nextPublicId) IN
          /\ blobs' = Put(blobs, url, reqs[r].file[1].buffer)
          /\ nextPublicId' = nextPublicId + 1
          /\ IF reqs[r].kind = "create"
             THEN /\ reqs' = [reqs EXCEPT ![r] = Saving(reqs[r], url)]
                  /\ nextId' = nextId + 1
             ELSE /\ reqs' = [reqs EXCEPT ![r].pc = "findByIdAndUpdate",
                                           ![r].image = url]
                  /\ UNCHANGED nextId
  /\ UNCHANGED <<variant, clock, users, products, seed>>

\* uploadToCloudinary(req.file.buffer) settles: rejected (the catch answers
\* 500), or resolved with the secure_url of the new blob.
UploadToCloudinary(r) ==
  /\ Settled
  /\ reqs[r].pc = "upload"
  /\ \/ /\ reqs' = [reqs EXCEPT ![r] = Catch(reqs[r], reqs[r].pc, ErrorText(reqs[r].kind))]
        /\ UNCHANGED <<blobs, nextPublicId, nextId>>
     \/ LET url == CloudRef(nextPublicId) IN
          /\ blobs' = Put(blobs, url, reqs[r].file[1].buffer)
          /\ nextPublicId' = nextPublicId + 1
          /\ IF reqs[r].kind = "create"
             THEN /\ reqs' = [reqs EXCEPT ![r] = Saving(reqs[r], url)]
                  /\ nextId' = nextId + 1
             ELSE /\ reqs' = [reqs EXCEPT ![r].pc = "findByIdAndUpdate",
                                           ![r].image = url]
                  /\ UNCHANGED nextId
  /\ UNCHANGED <<variant, clock, users, products, seed>>

\* await newProduct.save(); res.status(201).json(newProduct)
PostProductsSave(r) ==
  /\ Settled
  /\ reqs[r].kind = "create" /\ reqs[r].pc = "save"
  /\ \/ /\ reqs' = [reqs EXCEPT ![r] = Catch(reqs[r], reqs[r].pc, ErrorText(reqs[r].kind))]
        /\ UNCHANGED products
     \/ /\ products' = products \cup {reqs[r].doc[1]}
        /\ reqs' = [reqs EXCEPT ![r] = Json(reqs[r], 201, "", reqs[r].doc)]
  /\ UNCHANGED <<variant, clock, users, blobs, nextId, nextPublicId, seed>>

\* ------------------------------------------------- PUT /api/products/:id
\* Only part_000 has the route.
PutProducts(r, id, name, description, price, category, file) ==
  /\ Settled
  /\ variant = "cloud"
  /\ Listening
  /\ Free(r)
  /\ LET f == IF file = <<>> THEN <<>>
              ELSE <<[ext |-> file[1].ext, buffer |-> file[1].buffer, filename |-> 0]>>
         q == [Idle EXCEPT !.kind = "update", !.id = id, !.name = name,
                           !.description = description, !.price = price,
                           !.category = category, !.file = f,
                           !.priceNumber = parseFloat(price)]
     IN IF isNaN(q.priceNumber)
        THEN reqs' = [reqs EXCEPT ![r] = Json(q, 400, "Price must be a valid number", <<>>)]
        ELSE reqs' = [reqs EXCEPT ![r] =
               [q EXCEPT !.pc = IF f # <<>> THEN "upload" ELSE "findByIdAndUpdate"]]
  /\ UNCHANGED <<variant, clock, users, products, blobs, nextId, nextPublicId,
                 seed>>

\* Mutant of PutProductsFindByIdAndUpdate: {upsert: true}, a missing
\* document is inserted.
PutProductsUpsert(r) ==
  /\ Settled
  /\ reqs[r].kind = "update" /\ reqs[r].pc = "findByIdAndUpdate"
  /\ \/ /\ reqs' = [reqs EXCEPT ![r] = Catch(reqs[r], reqs[r].pc, ErrorText(reqs[r].kind))]
        /\ UNCHANGED products
     \/ /\ FindById(reqs[r].id) = {}
        /\ LET q == reqs[r]
               inserted == [id |-> q.id, name |-> q.name, description |-> q.description,
                            price |-> q.priceNumber, category |-> q.category,
                            image |-> q.image, date |-> clock]
           IN /\ products' = products \cup {inserted}
              /\ reqs' = [reqs EXCEPT ![r] = Json(q, 200, "", <<inserted>>)]
     \/ \E p \in FindById(reqs[r].id) :
          LET updated == ApplyUpdate(p, reqs[r]) IN
            /\ products' = (products \ {p}) \cup {updated}
            /\ reqs' = [reqs EXCEPT ![r] = Json(reqs[r], 200, "", <<updated>>)]
  /\ UNCHANGED <<variant, clock, users, blobs, nextId, nextPublicId, seed>>

PutProductsFindByIdAndUpdate(r) ==
  /\ Settled
  /\ reqs[r].kind = "update" /\ reqs[r].pc = "findByIdAndUpdate"
  /\ \/ /\ reqs' = [reqs EXCEPT ![r] = Catch(reqs[r], reqs[r].pc, ErrorText(reqs[r].kind))]
        /\ UNCHANGED products
     \/ /\ FindById(reqs[r].id) = {}
        /\ reqs' = [reqs EXCEPT ![r] = Json(reqs[r], 404, "Product not found", <<>>)]
        /\ UNCHANGED products
     \/ \E p \in FindById(reqs[r].id) :
          LET updated == ApplyUpdate(p, reqs[r]) IN
            /\ products' = (products \ {p}) \cup {updated}
            /\ reqs' = [reqs EXCEPT ![r] = Json(reqs[r], 200, "", <<updated>>)]
  /\ UNCHANGED <<variant, clock, users, blobs, nextId, nextPublicId, seed>>

\* ---------------------------------------------- DELETE /api/products/:id
DeleteProducts(r, id) ==
  /\ Settled
  /\ Listening
  /\ Free(r)
  /\ reqs' = [reqs EXCEPT ![r] =
       [Idle EXCEPT !.kind = "delete", !.pc = "findByIdAndDelete", !.id = id]]
  /\ UNCHANGED <<variant, clock, users, products, blobs, nextId, nextPublicId,
                 seed>>

DeleteProductsFindByIdAndDelete(r) ==
  /\ Settled
  /\ reqs[r].kind = "delete" /\ reqs[r].pc = "findByIdAndDelete"
  /\ \/ /\ reqs' = [reqs EXCEPT ![r] = Catch(reqs[r], reqs[r].pc, ErrorText(reqs[r].kind))]
        /\ UNCHANGED products
     \/ /\ FindById(reqs[r].id) = {}
        /\ reqs' = [reqs EXCEPT ![r] = Json(reqs[r], 404, "Product not found", <<>>)]
        /\ UNCHANGED products
     \/ /\ FindById(reqs[r].id) # {}
        /\ products' = products \ FindById(reqs[r].id)
        /\ reqs' = [reqs EXCEPT ![r] = Json(reqs[r], 200, "Product deleted", <<>>)]
  /\ UNCHANGED <<variant, clock, users, blobs, nextId, nextPublicId, seed>>

\* ----------------------------------------------------- GET /api/products
GetProducts(r) ==
  /\ Settled
  /\ Listening
  /\ Free(r)
  /\ reqs' = [reqs EXCEPT ![r] = [Idle EXCEPT !.kind = "list", !.pc = "find"]]
  /\ UNCHANGED <<variant, clock, users, products, blobs, nextId, nextPublicId,
                 seed>>

GetProductsFind(r) ==
  /\ Settled
  /\ reqs[r].kind = "list" /\ reqs[r].pc = "find"
  /\ \/ \E out \in Thrown(reqs[r], reqs[r].pc, "Internal server error") :
          reqs' = [reqs EXCEPT ![r] = out]
     \/ \E L \in SortByDateDesc(products) :
          reqs' = [reqs EXCEPT ![r] = Json(reqs[r], 200, "", L)]
  /\ UNCHANGED <<variant, clock, users, products, blobs, nextId, nextPublicId,
                 seed>>

\* ------------------------------------------------------- specifications
\* The ids update and delete requests name: those new Product can assign.
Ids == {1, 2}

AuthStep(r) ==
  \/ \E u \in Usernames, e \in Emails, p \in Passwords : Register(r, u, e, p)
  \/ RegisterFindOne(r)
  \/ RegisterSave(r)
  \/ \E e \in Emails, p \in Passwords : Login(r, e, p)
  \/ LoginFindOne(r)
  \/ LoginCompare(r)

\* A step of a product route in slot r, creates drawing their fields from
\* `creates` and updates from `updates`.
ProductStep(r, creates, updates) ==
  \/ \E a \in creates :
       PostProducts(r, a.name, a.description, a.price, a.category, a.file)
  \/ DiskStorageWrite(r)
  \/ UploadToCloudinary(r)
  \/ PostProductsSave(r)
  \/ \E i \in Ids, a \in updates :
       PutProducts(r, i, a.name, a.description, a.price, a.category, a.file)
  \/ PutProductsFindByIdAndUpdate(r)
  \/ \E i \in Ids : DeleteProducts(r, i)
  \/ DeleteProductsFindByIdAndDelete(r)
  \/ GetProducts(r)
  \/ GetProductsFind(r)

NextAuth ==
  \/ SeedAdminFindOne
  \/ SeedAdminSave
  \/ \E r \in Reqs : AuthStep(r) \/ Close(r)
NextProducts ==
  \/ Tick
  \/ \E r \in Reqs : ProductStep(r, CreateArgs, UpdateArgs) \/ Close(r)
\* One request at a time: slot r moves only while no other is in flight.
Alone(r) == \A s \in Reqs \ {r} : reqs[s].pc \in {"idle", "closed"}
NextPrices ==
  \E r \in Reqs : (Alone(r) /\ ProductStep(r, PriceArgs, PriceArgs)) \/ Close(r)
Next ==
  \/ Tick
  \/ SeedAdminFindOne
  \/ SeedAdminSave
  \/ \E r \in Reqs :
       AuthStep(r) \/ ProductStep(r, PriceArgs, PriceArgs) \/ Close(r)

\* The product a create of "Pen" at "1.50" with the file "c1" has stored
\* at clock 1, and the blob of its image.
StoredRef == IF variant = "cloud" THEN CloudRef(1) ELSE DiskRef(1, ".png")
Stored ==
  IF variant = "cloud"
  THEN [id |-> 1, name |-> "Pen", description |-> "Blue ink",
        price |-> parseFloat(<<"1", ".", "5", "0">>), category |-> "stationery",
        image |-> StoredRef, date |-> 1]
  ELSE [id |-> 1, name |-> "Pen", description |-> "Blue ink",
        price |-> parseFloat(<<"1", ".", "5", "0">>), image |-> StoredRef, date |-> 1]

\* The server at work: seedAdmin() has run, and the database is empty or
\* holds the product and the blob that one earlier create has left.
InitServing ==
  /\ variant \in Variants
  /\ clock = 1
  /\ users = {[id |-> 1, username |-> "Admin", email |-> AdminEmail,
               password |-> Hash("admin123")]}
  /\ \/ /\ products = {}
        /\ blobs = NoBlobs
        /\ nextId = 1
        /\ nextPublicId = 1
     \/ /\ products = {Stored}
        /\ blobs = Put(NoBlobs, StoredRef, "c1")
        /\ nextId = 2
        /\ nextPublicId = IF variant = "cloud" THEN 2 ELSE 1
  /\ seed = "done"
  /\ reqs = [r \in Reqs |-> Idle]

\* The whole server.
Spec == Init /\ [][Next]_vars
\* The auth routes and the seeding touch only the User collection, the
\* product routes only the Product collection and the Blob Store: each half
\* is checked on its own.  SpecProducts has the requests of every slot
\* interleave; SpecPrices serves one request at a time, over every price
\* text.
SpecAuth == Init /\ [][NextAuth]_vars
SpecProducts == InitServing /\ [][NextProducts]_vars
SpecPrices == InitServing /\ [][NextPrices]_vars

\* ------------------------------------------------------------ properties
\* The request in slot r has just been answered.
Answered(r) == reqs[r].pc # "done" /\ reqs'[r].pc = "done"
Range(L) == {L[i] : i \in DOMAIN L}

\* C1 (as claimed): a create or update request whose price text is not
\* numeric, with or without a file, writes neither a blob nor a product
\* record in any of its steps, and its response is 400.
C1_NonNumericPriceWritesNothing ==
  [][\A r \in Reqs :
       (/\ reqs'[r].kind \in {"create", "update"}
        /\ reqs'[r] # reqs[r]
        /\ ~IsNumericText(reqs'[r].price))
       => /\ blobs' = blobs
          /\ products' = products
          /\ reqs'[r].pc = "done" => reqs'[r].status = 400]_vars

\* C2 (as claimed): a price is accepted only if finite and not negative, so
\* no stored product has a negative or non-finite price.
C2_StoredPricesFiniteNonNegative ==
  \A p \in products : IsFinite(p.price) /\ ~IsNegative(p.price)

\* C3: when the upload of a create or update fails, that step answers 500
\* (once) and leaves the product collection as it was; and a request that
\* carries a file writes a product record only once its upload has returned
\* a reference into the Blob Store.
C3_UploadFailureAborts ==
  [][\A r \in Reqs :
       /\ (reqs[r].err = "" /\ reqs'[r].err \in {"upload", "diskwrite"})
            => /\ products' = products
               /\ reqs'[r].pc = "done"
               /\ reqs'[r].status = 500
               /\ reqs'[r].sent = 1
       /\ (/\ reqs[r].kind \in {"create", "update"}
           /\ reqs[r].file # <<>>
           /\ reqs'[r] # reqs[r]
           /\ products' # products)
            => reqs[r].image \in DOMAIN blobs]_vars
\* An update of a stored product has been answered 500 after its upload
\* failed.
C3_Witness ==
  \E r \in Reqs :
    /\ reqs[r].kind = "update" /\ reqs[r].pc = "done"
    /\ reqs[r].err = "upload" /\ reqs[r].status = 500
    /\ FindById(reqs[r].id) # {}

\* C4 (as claimed): the image of every stored product is empty or the
\* reference of a completed upload, never of an upload that failed or has
\* not finished.
C4_ImageEmptyOrCompletedUpload ==
  \A p \in products :
    p.image = <<>> \/ (p.image \in DOMAIN blobs /\ blobs[p.image] # Partial)

\* C5: an update without a file that finds its product leaves the product's
\* image (and _id and date) as they were, replaces name, description, price
\* and category by the submitted ones, and touches no other product.
C5_UpdateWithoutFileKeepsImage ==
  [][\A r \in Reqs :
       (/\ reqs[r].kind = "update"
        /\ reqs[r].file = <<>>
        /\ Answered(r)
        /\ reqs'[r].status = 200)
       => \E p \in products :
            LET u == reqs'[r].body[1] IN
              /\ p.id = reqs[r].id
              /\ u.id = p.id /\ u.image = p.image /\ u.date = p.date
              /\ u.name = reqs[r].name
              /\ u.description = reqs[r].description
              /\ u.category = reqs[r].category
              /\ u.price = parseFloat(reqs[r].price)
              /\ products' = (products \ {p}) \cup {u}]_vars
\* An update without a file has renamed a product that has an image.
C5_Witness ==
  \E r \in Reqs :
    /\ reqs[r].kind = "update" /\ reqs[r].pc = "done" /\ reqs[r].status = 200
    /\ reqs[r].file = <<>>
    /\ reqs[r].body[1].image # <<>>
    /\ reqs[r].body[1].name = reqs[r].name
    /\ reqs[r].body[1] \in products

\* C6 (as claimed): the user collection never holds two documents with the
\* same email.
C6_EmailsUnique ==
  \A u1, u2 \in users : u1.email = u2.email => u1 = u2

\* C7 (as claimed): a delete or update answered while its id matches no
\* stored product is answered 404 and leaves the product collection as it
\* was.
C7_MissingIdIs404 ==
  [][\A r \in Reqs :
       (/\ reqs'[r].kind \in {"update", "delete"}
        /\ Answered(r)
        /\ FindById(reqs'[r].id) = {})
       => /\ reqs'[r].status = 404
          /\ products' = products]_vars
\* C7 (amended): a delete or update answered while its id matches no stored
\* product leaves the product collection, and so every listing, as it was;
\* it is answered 400 if it is an update whose price does not parse, 500 if
\* its upload or its database call threw, and 404 otherwise.
C7_MissingIdLeavesProducts ==
  [][\A r \in Reqs :
       (/\ reqs'[r].kind \in {"update", "delete"}
        /\ Answered(r)
        /\ FindById(reqs'[r].id) = {})
       => /\ products' = products
          /\ SortByDateDesc(products') = SortByDateDesc(products)
          /\ reqs'[r].status =
               IF reqs'[r].kind = "update" /\ isNaN(parseFloat(reqs'[r].price))
               THEN 400
               ELSE IF reqs'[r].err # "" THEN 500 ELSE 404]_vars
\* An update of a missing id has been answered 404 while another product is
\* stored.
C7_Witness ==
  \E r \in Reqs :
    /\ reqs[r].kind = "update" /\ reqs[r].pc = "done" /\ reqs[r].status = 404
    /\ FindById(reqs[r].id) = {}
    /\ products # {}

\* C8 (as claimed): a request whose handler has ended has received exactly
\* one response, and that response is 500 when a store call threw.
C8_EveryRequestAnswered ==
  \A r \in Reqs :
    reqs[r].pc \in {"done", "hung"}
      => /\ reqs[r].sent = 1
         /\ reqs[r].err # "" => reqs[r].status = 500

\* The body of a listing: every stored product once, dates not increasing.
ListsAll(L) ==
  /\ Len(L) = Cardinality(products)
  /\ Range(L) = products
  /\ \A i, j \in DOMAIN L : i < j => L[i].date >= L[j].date
\* The create of slot r has just been answered 201.
Created(r) ==
  reqs[r].kind = "create" /\ Answered(r) /\ reqs'[r].status = 201
Listed(r) ==
  reqs[r].kind = "list" /\ Answered(r) /\ reqs'[r].status = 200
Newest(p, docs) == \A o \in docs \ {p} : p.date > o.date

\* C9 (as claimed): a listing holds every stored product once, newest
\* first; and a listing taken right after a create has succeeded has the
\* created product first.
C9_CreatedProductListedFirst ==
  [][\A r \in Reqs :
       /\ Listed(r) => ListsAll(reqs'[r].body)
       /\ Created(r)
            => \A L \in SortByDateDesc(products') : L[1] = reqs'[r].body[1]]_vars
\* C9 (amended): a listing holds every stored product once, dates not
\* increasing, so a product whose date is later than every other's is first;
\* a listing taken right after a create has succeeded has the created
\* product first if its date is later than that of every other stored
\* product.
C9_ListNewestFirst ==
  [][\A r \in Reqs :
       /\ Listed(r)
            => /\ ListsAll(reqs'[r].body)
               /\ \A p \in products : Newest(p, products) => reqs'[r].body[1] = p
       /\ (Created(r) /\ Newest(reqs'[r].body[1], products'))
            => \A L \in SortByDateDesc(products') : L[1] = reqs'[r].body[1]]_vars
\* A listing of two products of different dates has been returned.
C9_Witness ==
  \E r \in Reqs :
    /\ reqs[r].kind = "list" /\ reqs[r].pc = "done" /\ reqs[r].status = 200
    /\ Len(reqs[r].body) = 2
    /\ reqs[r].body[1].date > reqs[r].body[2].date

\* C10 (as claimed): the product a create with a file returns has an image
\* reference that resolves to the bytes that request uploaded.
C10_ImageResolvesToOwnUpload ==
  \A r \in Reqs :
    (/\ reqs[r].kind = "create" /\ reqs[r].pc = "done"
     /\ reqs[r].status = 201 /\ reqs[r].file # <<>>)
    => /\ reqs[r].body[1].image \in DOMAIN blobs
       /\ blobs[reqs[r].body[1].image] = reqs[r].file[1].buffer

====
